---- MODULE Spec2Model ----
(***************************************************************************)
(* Model of the RNA-seq assistant's retry wrapper, utils.invoke_with_retry *)
(* (src/src/utils.py).  One execution of invoke_with_retry is a state      *)
(* machine: the for loop over range(max_retries), the call of              *)
(* agent.invoke, the classification of the exception text, the backoff     *)
(* sleep and the three ways the function ends.                             *)
(*                                                                         *)
(* Texts that the code inspects (str(e)) are sequences of one-character    *)
(* strings, so that lower-casing and the substring test are computed.      *)
(* Time is counted in ticks of 1/JitterSteps second.                       *)
(***************************************************************************)
EXTENDS Integers, Sequences, FiniteSets, TLC

\* Largest max_retries passed to invoke_with_retry in the model.
MaxRetriesBound == 7

\* Largest max_retries when invoke_with_retry is called several times.
SeqMaxRetries == 2

\* Number of successive calls of invoke_with_retry.
MaxCalls == 2

\* Largest max_retries of the executions that run at the same time.
ConcMaxRetries == 2

\* Ticks per second: random.uniform(0, 1) is one of 0/J, 1/J, ..., J/J.
JitterSteps == 2

\* The cap of the backoff delay, in seconds: min(..., 30).
MaxDelay == 30

VARIABLES
    max_retries,  \* the max_retries argument of this execution
    pc,           \* "for" (loop head), "sleep" (inside time.sleep), "done"
    attempt,      \* the loop variable of `for attempt in range(max_retries)`
    calls,        \* number of agent.invoke calls made so far
    sleeps,       \* number of time.sleep calls made so far
    delay,        \* argument of the latest time.sleep call, in ticks
    slept,        \* sum of the arguments of all time.sleep calls, in ticks
    history,      \* one entry per agent.invoke call: its kind and what it returned
    outcome,      \* "running", "returned" or "raised"
    result,       \* the value returned to the caller, when outcome = "returned"
    raised,       \* the exception seen by the caller, when outcome = "raised"
    lastExc,      \* what the latest agent.invoke call raised (NoExc: it returned)
    waitCancelled \* TRUE once a time.sleep call was interrupted

vars == <<max_retries, pc, attempt, calls, sleeps, delay, slept, history,
          outcome, result, raised, lastExc, waitCancelled>>

\* Successive calls of invoke_with_retry by one caller.
VARIABLES
    callNo,       \* 1 for the first call, 2 for the call after it, ...
    prev          \* how the call before this one went (NoPrev: there was none)

seqVars == <<callNo, prev>>

\* Executions of invoke_with_retry that run at the same time, one per session.
VARIABLES
    inv,          \* for each session, the state of its execution
    loopVar       \* for each storage cell of a loop variable `attempt`, its value

concVars == <<inv, loopVar>>

\* RNAseqDatabase, the agent's tools and RNAseqPlotter.
VARIABLES
    connection,    \* self.connection: "none" (None), "open" or "closed"
    db,            \* the rows of the table, as seen through the connection
    lastQuery,     \* the argument of the latest execute_query call
    connBefore,    \* connection when the latest execute_query call started
    dbBefore,      \* db when the latest execute_query call started
    dbAfter,       \* db when that call returned
    connAfter,     \* connection when that call returned
    cacheBefore,   \* plotter.last_query_data when the latest SQL_Query call started
    lastRows,      \* the rows of the latest SQL_Query call that returned any
    passed,        \* the statement that call gave to cursor.execute (NoText: none)
    ret,           \* what that call returned
    lastQueryData, \* plotter.last_query_data
    lastTool,      \* the tool called last: "none", "SQL_Query" or "Create_Plot"
    toolOut,       \* what that tool returned
    llmAsked       \* TRUE when that tool call asked the model for plotting code

dbVars == <<connection, db, lastQuery, connBefore, dbBefore, dbAfter,
            connAfter, cacheBefore, lastRows, passed, ret, lastQueryData,
            lastTool, toolOut, llmAsked>>

\* The chat page of app.py and the memory of the agent behind it.
VARIABLES
    chatHistory,   \* the data of dcc.Store 'chat-history', in the browser
    memory,        \* the messages held by agent.memory, in the server process
    askContext,    \* the messages of memory that the latest agent.ask ran with
    lastReset,     \* how chatHistory last became empty: "load", "refresh", "clear"
    asked          \* number of agent.ask calls so far

chatVars == <<chatHistory, memory, askContext, lastReset, asked>>

\* The state that an execution of invoke_with_retry does not touch.
otherVars == <<seqVars, concVars, dbVars, chatVars>>

----------------------------------------------------------------------------
\* Texts

UpperChars == <<"A","B","C","D","E","F","G","H","I","J","K","L","M",
                "N","O","P","Q","R","S","T","U","V","W","X","Y","Z">>

LowerChars == <<"a","b","c","d","e","f","g","h","i","j","k","l","m",
                "n","o","p","q","r","s","t","u","v","w","x","y","z">>

\* One character of str.lower().
LowerChar(c) ==
    IF \E i \in 1..Len(UpperChars) : UpperChars[i] = c
    THEN LowerChars[CHOOSE i \in 1..Len(UpperChars) : UpperChars[i] = c]
    ELSE c

\* str.lower()
Lower(s) == [i \in 1..Len(s) |-> LowerChar(s[i])]

\* Python's `sub in s` for strings.
Contains(s, sub) ==
    \E i \in 1..(Len(s) - Len(sub) + 1) : SubSeq(s, i, i + Len(sub) - 1) = sub

Txt429 == <<"4","2","9">>

TxtRateLimit == <<"r","a","t","e"," ","l","i","m","i","t">>

TxtCapacity == <<"c","a","p","a","c","i","t","y">>

TxtRate == <<"r","a","t","e">>

----------------------------------------------------------------------------
\* Values

\* Python's None.
NoneValue == [py_none |-> TRUE]

\* No exception bound.
NoExc == [type |-> "", msg |-> <<>>]

\* Normal responses of agent.invoke: an answer and the tool steps taken.
AgentResults ==
    { [output |-> "TP53 is up-regulated", intermediate_steps |-> <<"SQL_Query">>],
      [output |-> "There are 12 samples", intermediate_steps |-> <<>>] }

\* Exceptions agent.invoke raises that `except Exception` catches; msg is str(e).
CallableErrors ==
    { [type |-> "HTTPStatusError",
       msg |-> <<"E","r","r","o","r"," ","4","2","9">>],
      [type |-> "SDKError",
       msg |-> <<"R","a","t","e"," ","L","i","m","i","t"," ","h","i","t">>],
      [type |-> "Exception",
       msg |-> <<"A","T"," ","C","A","P","A","C","I","T","Y">>],
      [type |-> "ValueError",
       msg |-> <<"b","a","d"," ","A","P","I"," ","k","e","y">>],
      [type |-> "RuntimeError",
       msg |-> <<"c","a","n","n","o","t"," ","g","e","n","e","r","a","t","e">>],
      [type |-> "SDKError",
       msg |-> <<"r","a","t","e","-","l","i","m","i","t">>] }

\* The signal that interrupts a blocking call: a BaseException that is no Exception.
KeyboardInterrupt == [type |-> "KeyboardInterrupt", msg |-> <<>>]

\* Whether `except Exception` catches e.
IsException(e) == e.type # "KeyboardInterrupt"

\* Everything agent.invoke can raise.
CallableRaises == CallableErrors \cup {KeyboardInterrupt}

----------------------------------------------------------------------------
\* invoke_with_retry, piece by piece

\* A classification that matches the text as raised, without lower-casing it.
IsRetryableCaseSensitive(msg) ==
    \/ Contains(msg, Txt429)
    \/ Contains(msg, TxtRateLimit)
    \/ Contains(msg, TxtCapacity)

\* A classification that looks for "rate" instead of "rate limit".
IsRetryableLoose(msg) ==
    \/ Contains(Lower(msg), Txt429)
    \/ Contains(Lower(msg), TxtRate)
    \/ Contains(Lower(msg), TxtCapacity)

\* error_str = str(e).lower(); "429" in error_str or "rate limit" in error_str
\* or "capacity" in error_str
IsRetryable(msg) ==
    \/ Contains(Lower(msg), Txt429)
    \/ Contains(Lower(msg), TxtRateLimit)
    \/ Contains(Lower(msg), TxtCapacity)

\* A loop that runs one iteration too many.
InRangeOffByOne(i, n) == i <= n

\* `for attempt in range(max_retries)`: i is one of the values of the range.
InRange(i, n) == i < n

\* A retry test that also retries after the last attempt.
HasMoreAttemptsOffByOne(i, n) == i < n

\* `if attempt < max_retries - 1`
HasMoreAttempts(i, n) == i < n - 1

RECURSIVE Pow2(_)
\* 2 ** i
Pow2(i) == IF i <= 0 THEN 1 ELSE 2 * Pow2(i - 1)

Min(a, b) == IF a <= b THEN a ELSE b

\* A backoff without the cap.
DelayUncapped(i, j) == Pow2(i) * JitterSteps + j

\* delay = min(2 ** attempt + random.uniform(0, 1), 30), in ticks; j is the
\* jitter in ticks.
Delay(i, j) == Min(Pow2(i) * JitterSteps + j, MaxDelay * JitterSteps)

\* A fallback that lacks the intermediate_steps field.
FallbackResultNoSteps ==
    [output |-> "MistralAI is currently at capacity. Please try again in a few moments."]

\* The dict returned when all retries are exhausted.
FallbackResult ==
    [output |-> "MistralAI is currently at capacity. Please try again in a few moments.",
     intermediate_steps |-> <<>>]

\* A re-raise that wraps the error in a new exception.
ReraiseWrapped(e) == [type |-> "Exception", msg |-> e.msg]

\* `raise e`: the exception object that was caught.
Reraise(e) == e

----------------------------------------------------------------------------
\* One execution of invoke_with_retry

\* No call before this one.
NoPrev == [calls |-> 0, history |-> <<>>, outcome |-> "none", result |-> NoneValue]

\* A single call: it is the first one.
SeqIdle ==
    /\ callNo = 1
    /\ prev = NoPrev

\* No text: no statement, no query.
NoText == <<>>

\* Number of rows of the table when the database is opened.
InitialRows == 21

\* The table of results: one row per gene, with its adjusted p-value class.
InitialTable == [i \in 1..InitialRows |-> [gene |-> i, padj |-> i % 2]]

\* Nothing has been done with the database, the tools or the plotter.
\* A plotter that starts out holding one row.
InitialQueryDataSample ==
    [data |-> <<[gene |-> 1, padj |-> 0]>>, query_info |-> NoText]

\* RNAseqPlotter.__init__: self.last_query_data = None
InitialQueryData == NoneValue

DbIdle ==
    /\ connection = "none"
    /\ db = InitialTable
    /\ lastQuery = NoText
    /\ connBefore = "none"
    /\ dbBefore = InitialTable
    /\ dbAfter = InitialTable
    /\ connAfter = "none"
    /\ cacheBefore = InitialQueryData
    /\ lastRows = NoneValue
    /\ passed = NoText
    /\ ret = NoneValue
    /\ lastQueryData = InitialQueryData
    /\ lastTool = "none"
    /\ toolOut = NoneValue
    /\ llmAsked = FALSE

\* The page has just been loaded and the agent has answered nothing yet.
ChatIdle ==
    /\ chatHistory = <<>>
    /\ memory = <<>>
    /\ askContext = <<>>
    /\ lastReset = "load"
    /\ asked = 0

\* The user sessions that call invoke_with_retry at the same time.
Sessions == {"s1", "s2"}

\* The locals of an execution that has just been called with max_retries = n.
Frame(n) ==
    [max_retries |-> n, pc |-> "for", calls |-> 0, sleeps |-> 0, delay |-> 0,
     history |-> <<>>, outcome |-> "running", result |-> NoneValue,
     raised |-> NoExc, cancelled |-> FALSE]

\* No session is running an execution of its own.
ConcIdle ==
    /\ inv = [p \in Sessions |-> Frame(0)]
    /\ loopVar = [p \in Sessions |-> 0]

\* The call: max_retries is any integer the caller passes; the loop has not
\* started.
Init ==
    /\ max_retries \in -1..MaxRetriesBound
    /\ pc = "for"
    /\ attempt = 0
    /\ calls = 0
    /\ sleeps = 0
    /\ delay = 0
    /\ slept = 0
    /\ history = <<>>
    /\ outcome = "running"
    /\ result = NoneValue
    /\ raised = NoExc
    /\ lastExc = NoExc
    /\ waitCancelled = FALSE
    /\ SeqIdle
    /\ ConcIdle
    /\ DbIdle
    /\ ChatIdle

\* The kind of a raised text as the retry policy names it: a text that contains
\* "429", "rate limit" or "capacity" when letter case is ignored is retryable.
TextKind(msg) ==
    IF \E kw \in {Txt429, TxtRateLimit, TxtCapacity} :
          \E i \in 0..(Len(msg) - Len(kw)) :
             \A k \in 1..Len(kw) : LowerChar(msg[i + k]) = LowerChar(kw[k])
    THEN "retryable"
    ELSE "fatal"

\* A success that drops the steps of the response it returns.
InvokeReturnsStripped(r) ==
    /\ UNCHANGED otherVars
    /\ pc = "for"
    /\ InRange(attempt, max_retries)
    /\ calls' = calls + 1
    /\ history' = Append(history, [kind |-> "ok", ret |-> r])
    /\ lastExc' = NoExc
    /\ outcome' = "returned"
    /\ result' = [r EXCEPT !.intermediate_steps = <<>>]
    /\ pc' = "done"
    /\ UNCHANGED <<max_retries, attempt, sleeps, delay, slept, raised,
                   waitCancelled>>

\* `return agent.invoke(input_dict)` when the call returns r.
InvokeReturns(r) ==
    /\ UNCHANGED otherVars
    /\ pc = "for"
    /\ InRange(attempt, max_retries)
    /\ calls' = calls + 1
    /\ history' = Append(history, [kind |-> "ok", ret |-> r])
    /\ lastExc' = NoExc
    /\ outcome' = "returned"
    /\ result' = r
    /\ pc' = "done"
    /\ UNCHANGED <<max_retries, attempt, sleeps, delay, slept, raised,
                   waitCancelled>>

\* agent.invoke raises e; j is the value random.uniform(0, 1) would give.
\* An exception that is no Exception passes through the try statement.  A
\* caught one is classified by its text: retry after a sleep, return the
\* fallback, or raise it again.
InvokeRaises(e, j) ==
    /\ UNCHANGED otherVars
    /\ pc = "for"
    /\ InRange(attempt, max_retries)
    /\ calls' = calls + 1
    /\ history' = Append(history, [kind |-> IF IsException(e)
                                            THEN TextKind(e.msg)
                                            ELSE "interrupt",
                                    ret |-> NoneValue])
    /\ lastExc' = e
    /\ IF ~IsException(e)
       THEN /\ outcome' = "raised"
            /\ raised' = e
            /\ pc' = "done"
            /\ UNCHANGED <<sleeps, delay, slept, result>>
       ELSE IF IsRetryable(e.msg)
       THEN IF HasMoreAttempts(attempt, max_retries)
            THEN /\ delay' = Delay(attempt, j)
                 /\ sleeps' = sleeps + 1
                 /\ slept' = slept + Delay(attempt, j)
                 /\ pc' = "sleep"
                 /\ UNCHANGED <<outcome, result, raised>>
            ELSE /\ outcome' = "returned"
                 /\ result' = FallbackResult
                 /\ pc' = "done"
                 /\ UNCHANGED <<sleeps, delay, slept, raised>>
       ELSE /\ outcome' = "raised"
            /\ raised' = Reraise(e)
            /\ pc' = "done"
            /\ UNCHANGED <<sleeps, delay, slept, result>>
    /\ UNCHANGED <<max_retries, attempt, waitCancelled>>

\* range(max_retries) has no further value: the function body ends and the
\* call returns None.
LoopEnds ==
    /\ UNCHANGED otherVars
    /\ pc = "for"
    /\ ~InRange(attempt, max_retries)
    /\ outcome' = "returned"
    /\ result' = NoneValue
    /\ pc' = "done"
    /\ UNCHANGED <<max_retries, attempt, calls, sleeps, delay, slept, history,
                   raised, lastExc, waitCancelled>>

\* A retry that goes back to the call without taking the next value.
SleepCompletesNoAdvance ==
    /\ UNCHANGED otherVars
    /\ pc = "sleep"
    /\ pc' = "for"
    /\ UNCHANGED <<max_retries, attempt, calls, sleeps, delay, slept, history,
                   outcome, result, raised, lastExc, waitCancelled>>

\* time.sleep(delay) returns; `continue` takes the next value of the range.
SleepCompletes ==
    /\ UNCHANGED otherVars
    /\ pc = "sleep"
    /\ attempt' = attempt + 1
    /\ pc' = "for"
    /\ UNCHANGED <<max_retries, calls, sleeps, delay, slept, history, outcome,
                   result, raised, lastExc, waitCancelled>>

\* An interrupted sleep whose signal is caught and turned into the fallback.
SleepCancelledSwallowed ==
    /\ UNCHANGED otherVars
    /\ pc = "sleep"
    /\ waitCancelled' = TRUE
    /\ outcome' = "returned"
    /\ result' = FallbackResult
    /\ pc' = "done"
    /\ UNCHANGED <<max_retries, attempt, calls, sleeps, delay, slept, history,
                   raised, lastExc>>

\* time.sleep(delay) is interrupted: it runs in the except clause, outside the
\* try body, so the signal leaves invoke_with_retry.
SleepCancelled ==
    /\ UNCHANGED otherVars
    /\ pc = "sleep"
    /\ waitCancelled' = TRUE
    /\ outcome' = "raised"
    /\ raised' = KeyboardInterrupt
    /\ pc' = "done"
    /\ UNCHANGED <<max_retries, attempt, calls, sleeps, delay, slept, history,
                   result, lastExc>>

Next ==
    \/ \E r \in AgentResults : InvokeReturns(r)
    \/ \E e \in CallableRaises : \E j \in 0..JitterSteps : InvokeRaises(e, j)
    \/ LoopEnds
    \/ SleepCompletes
    \/ SleepCancelled

Spec == Init /\ [][Next]_vars

\* A first call of several: as Init, with max_retries up to SeqMaxRetries.
InitSeq ==
    /\ max_retries \in 0..SeqMaxRetries
    /\ pc = "for"
    /\ attempt = 0
    /\ calls = 0
    /\ sleeps = 0
    /\ delay = 0
    /\ slept = 0
    /\ history = <<>>
    /\ outcome = "running"
    /\ result = NoneValue
    /\ raised = NoExc
    /\ lastExc = NoExc
    /\ waitCancelled = FALSE
    /\ SeqIdle
    /\ ConcIdle
    /\ DbIdle
    /\ ChatIdle

\* A next call that goes on from the loop variable of the call before it.
CallAgainKeepsAttempt(n) ==
    /\ pc = "done"
    /\ callNo < MaxCalls
    /\ callNo' = callNo + 1
    /\ prev' = [calls |-> calls, history |-> history, outcome |-> outcome,
                result |-> result]
    /\ max_retries' = n
    /\ pc' = "for"
    /\ calls' = 0
    /\ sleeps' = 0
    /\ delay' = 0
    /\ slept' = 0
    /\ history' = <<>>
    /\ outcome' = "running"
    /\ result' = NoneValue
    /\ raised' = NoExc
    /\ lastExc' = NoExc
    /\ waitCancelled' = FALSE
    /\ UNCHANGED <<attempt, concVars, dbVars, chatVars>>

\* The caller calls invoke_with_retry again, with max_retries = n, after the
\* call before has returned or raised: every local of the function is new,
\* and range(max_retries) starts at 0.
CallAgain(n) ==
    /\ pc = "done"
    /\ callNo < MaxCalls
    /\ callNo' = callNo + 1
    /\ prev' = [calls |-> calls, history |-> history, outcome |-> outcome,
                result |-> result]
    /\ max_retries' = n
    /\ pc' = "for"
    /\ attempt' = 0
    /\ calls' = 0
    /\ sleeps' = 0
    /\ delay' = 0
    /\ slept' = 0
    /\ history' = <<>>
    /\ outcome' = "running"
    /\ result' = NoneValue
    /\ raised' = NoExc
    /\ lastExc' = NoExc
    /\ waitCancelled' = FALSE
    /\ UNCHANGED <<concVars, dbVars, chatVars>>

NextSeq ==
    \/ \E r \in AgentResults : InvokeReturns(r)
    \/ \E e \in CallableRaises : \E j \in 0..JitterSteps : InvokeRaises(e, j)
    \/ LoopEnds
    \/ SleepCompletes
    \/ SleepCancelled
    \/ \E n \in 0..SeqMaxRetries : CallAgain(n)

\* Successive calls of invoke_with_retry.
SeqSpec == InitSeq /\ [][NextSeq]_<<vars, seqVars>>

\* No single execution is under way: the variables of one rest.
RetryIdle ==
    /\ max_retries = 0
    /\ pc = "done"
    /\ attempt = 0
    /\ calls = 0
    /\ sleeps = 0
    /\ delay = 0
    /\ slept = 0
    /\ history = <<>>
    /\ outcome = "returned"
    /\ result = NoneValue
    /\ raised = NoExc
    /\ lastExc = NoExc
    /\ waitCancelled = FALSE

\* One loop variable for all executions, as a module-level counter would be.
AttemptCellShared(p) == "s1"

\* `attempt` is a local of the call: each execution has its own.
AttemptCell(p) == p

\* Every session calls invoke_with_retry, each with its own max_retries.
InitConc ==
    /\ inv \in [Sessions -> {Frame(n) : n \in 0..ConcMaxRetries}]
    /\ loopVar = [p \in Sessions |-> 0]
    /\ RetryIdle
    /\ SeqIdle
    /\ DbIdle
    /\ ChatIdle

\* Session p: `return agent.invoke(input_dict)` when the call returns r.
ConcInvokeReturns(p, r) ==
    /\ inv[p].pc = "for"
    /\ InRange(loopVar[AttemptCell(p)], inv[p].max_retries)
    /\ inv' = [inv EXCEPT ![p] =
                 [@ EXCEPT !.calls = @ + 1,
                           !.history = Append(@, [kind |-> "ok", ret |-> r]),
                           !.outcome = "returned",
                           !.result = r,
                           !.pc = "done"]]
    /\ UNCHANGED <<loopVar, vars, seqVars, dbVars, chatVars>>

\* Session p: agent.invoke raises e; j is the jitter.
ConcInvokeRaises(p, e, j) ==
    /\ inv[p].pc = "for"
    /\ InRange(loopVar[AttemptCell(p)], inv[p].max_retries)
    /\ LET called == [inv[p] EXCEPT
                        !.calls = @ + 1,
                        !.history = Append(@, [kind |-> IF IsException(e)
                                                        THEN TextKind(e.msg)
                                                        ELSE "interrupt",
                                               ret |-> NoneValue])]
       IN  inv' = [inv EXCEPT ![p] =
             IF ~IsException(e)
             THEN [called EXCEPT !.outcome = "raised", !.raised = e,
                                 !.pc = "done"]
             ELSE IF IsRetryable(e.msg)
             THEN IF HasMoreAttempts(loopVar[AttemptCell(p)], inv[p].max_retries)
                  THEN [called EXCEPT
                          !.delay = Delay(loopVar[AttemptCell(p)], j),
                          !.sleeps = @ + 1,
                          !.pc = "sleep"]
                  ELSE [called EXCEPT !.outcome = "returned",
                                      !.result = FallbackResult,
                                      !.pc = "done"]
             ELSE [called EXCEPT !.outcome = "raised", !.raised = Reraise(e),
                                 !.pc = "done"]]
    /\ UNCHANGED <<loopVar, vars, seqVars, dbVars, chatVars>>

\* Session p: range(max_retries) has no further value; the call returns None.
ConcLoopEnds(p) ==
    /\ inv[p].pc = "for"
    /\ ~InRange(loopVar[AttemptCell(p)], inv[p].max_retries)
    /\ inv' = [inv EXCEPT ![p] =
                 [@ EXCEPT !.outcome = "returned", !.result = NoneValue,
                           !.pc = "done"]]
    /\ UNCHANGED <<loopVar, vars, seqVars, dbVars, chatVars>>

\* Session p: time.sleep(delay) returns; `continue` takes the next value.
ConcSleepCompletes(p) ==
    /\ inv[p].pc = "sleep"
    /\ loopVar' = [loopVar EXCEPT ![AttemptCell(p)] = @ + 1]
    /\ inv' = [inv EXCEPT ![p] = [@ EXCEPT !.pc = "for"]]
    /\ UNCHANGED <<vars, seqVars, dbVars, chatVars>>

\* Session p: time.sleep(delay) is interrupted; the signal leaves the call.
ConcSleepCancelled(p) ==
    /\ inv[p].pc = "sleep"
    /\ inv' = [inv EXCEPT ![p] =
                 [@ EXCEPT !.cancelled = TRUE, !.outcome = "raised",
                           !.raised = KeyboardInterrupt, !.pc = "done"]]
    /\ UNCHANGED <<loopVar, vars, seqVars, dbVars, chatVars>>

NextConc ==
    \/ \E p \in Sessions : \E r \in AgentResults : ConcInvokeReturns(p, r)
    \/ \E p \in Sessions : \E e \in CallableRaises : \E j \in 0..JitterSteps :
          ConcInvokeRaises(p, e, j)
    \/ \E p \in Sessions : ConcLoopEnds(p)
    \/ \E p \in Sessions : ConcSleepCompletes(p)
    \/ \E p \in Sessions : ConcSleepCancelled(p)

\* Executions of invoke_with_retry in several sessions, interleaved.
ConcSpec == InitConc /\ [][NextConc]_concVars

\* One call of agent.invoke, whatever it does.
Invoke ==
    \/ \E r \in AgentResults : InvokeReturns(r)
    \/ \E e \in CallableRaises : \E j \in 0..JitterSteps : InvokeRaises(e, j)

\* The execution under the scheduling of a blocking call: agent.invoke returns
\* or raises, time.sleep returns unless it is interrupted, and the interpreter
\* goes on to the next statement.
FairSpec ==
    /\ Spec
    /\ WF_vars(Invoke)
    /\ WF_vars(LoopEnds)
    /\ WF_vars(SleepCompletes)

\* The values the variables take.
TypeOK ==
    /\ max_retries \in -1..MaxRetriesBound
    /\ pc \in {"for", "sleep", "done"}
    /\ attempt \in Nat
    /\ calls \in Nat
    /\ sleeps \in Nat
    /\ delay \in Nat
    /\ slept \in Nat
    /\ outcome \in {"running", "returned", "raised"}
    /\ waitCancelled \in BOOLEAN
    /\ (pc = "done") = (outcome # "running")

----------------------------------------------------------------------------
\* RNAseqDatabase (src/src/database.py), the SQL_Query and Create_Plot tools
\* (src/src/agent.py) and RNAseqPlotter (src/src/plotter.py)

\* One character of str.upper().
UpperChar(c) ==
    IF \E i \in 1..Len(LowerChars) : LowerChars[i] = c
    THEN UpperChars[CHOOSE i \in 1..Len(LowerChars) : LowerChars[i] = c]
    ELSE c

\* str.upper()
Upper(s) == [i \in 1..Len(s) |-> UpperChar(s[i])]

\* dangerous_keywords
DangerousKeywords ==
    { <<"D","R","O","P">>,
      <<"D","E","L","E","T","E">>,
      <<"I","N","S","E","R","T">>,
      <<"U","P","D","A","T","E">>,
      <<"A","L","T","E","R">>,
      <<"C","R","E","A","T","E">> }

\* The queries the tool is called with: the text, and what SQLite does with it
\* when it is executed.
Queries ==
    { [effect |-> "all",
       text |-> <<"S","E","L","E","C","T"," ","*"," ","F","R","O","M"," ","g","e","n","e","s">>],
      [effect |-> "sig",
       text |-> <<"S","E","L","E","C","T"," ","*"," ","F","R","O","M"," ","g","e","n","e","s"," ","W","H","E","R","E"," ","p","a","d","j"," ","="," ","0">>],
      [effect |-> "none",
       text |-> <<"s","e","l","e","c","t"," ","g","e","n","e"," ","f","r","o","m"," ","g","e","n","e","s"," ","w","h","e","r","e"," ","1","=","0">>],
      [effect |-> "dup2",
       text |-> <<"S","E","L","E","C","T"," ","g","e","n","e",","," ","g","e","n","e"," ","F","R","O","M"," ","g","e","n","e","s"," ","L","I","M","I","T"," ","2">>],
      [effect |-> "nocolumn",
       text |-> <<"S","E","L","E","C","T"," ","u","p","d","a","t","e","d"," ","F","R","O","M"," ","g","e","n","e","s">>],
      [effect |-> "drop",
       text |-> <<"d","r","o","p"," ","t","a","b","l","e"," ","g","e","n","e","s">>],
      [effect |-> "replace",
       text |-> <<"R","E","P","L","A","C","E"," ","I","N","T","O"," ","g","e","n","e","s"," ","V","A","L","U","E","S"," ","(","1",","," ","9",")">>],
      [effect |-> "pragma",
       text |-> <<"P","R","A","G","M","A"," ","t","a","b","l","e","_","i","n","f","o","(","g","e","n","e","s",")">>],
      [effect |-> "nosuch",
       text |-> <<"S","E","L","E","C","T"," ","*"," ","F","R","O","M"," ","n","o","s","u","c","h">>] }

\* The first word of a statement, in upper case: the kind of statement it is.
StatementKind(text) ==
    LET ends == {i \in 1..Len(text) : text[i] = " "}
        stop == IF ends = {} THEN Len(text) + 1
                ELSE CHOOSE i \in ends : \A k \in ends : i <= k
    IN  Upper(SubSeq(text, 1, stop - 1))

TxtSelect == <<"S","E","L","E","C","T">>

\* cursor.execute(query) on an open connection whose table holds `table`:
\* the exception it raises ("": none), whether cursor.description is set, the
\* column names, the rows, and the table as the connection sees it afterwards.
Sqlite(effect, table) ==
    LET IsSig(r) == r.padj = 0
        done == [error |-> "", described |-> TRUE, columns |-> <<>>,
                 rows |-> <<>>, table |-> table]
    IN  CASE effect = "all" ->
               [done EXCEPT !.columns = <<"gene", "padj">>,
                            !.rows = [i \in 1..Len(table) |->
                                        <<table[i].gene, table[i].padj>>]]
          [] effect = "sig" ->
               [done EXCEPT !.columns = <<"gene", "padj">>,
                            !.rows = [i \in 1..Len(SelectSeq(table, IsSig)) |->
                                        <<SelectSeq(table, IsSig)[i].gene,
                                          SelectSeq(table, IsSig)[i].padj>>]]
          [] effect = "none" ->
               [done EXCEPT !.columns = <<"gene">>]
          [] effect = "dup2" ->
               [done EXCEPT !.columns = <<"gene", "gene">>,
                            !.rows = [i \in 1..Min(2, Len(table)) |->
                                        <<table[i].gene, table[i].gene>>]]
          [] effect = "pragma" ->
               [done EXCEPT !.columns = <<"name", "type">>,
                            !.rows = << <<"gene", "INTEGER">>,
                                        <<"padj", "INTEGER">> >>]
          [] effect = "replace" ->
               [done EXCEPT !.described = FALSE,
                            !.table = IF table = <<>>
                                      THEN <<[gene |-> 1, padj |-> 9]>>
                                      ELSE [table EXCEPT ![1] =
                                              [gene |-> 1, padj |-> 9]]]
          [] effect = "drop" ->
               [done EXCEPT !.described = FALSE, !.table = <<>>]
          [] effect = "nocolumn" ->
               [done EXCEPT !.error = "no such column: updated"]
          [] effect = "nosuch" ->
               [done EXCEPT !.error = "no such table: nosuch"]

\* dict(zip(columns, row)): of two columns with one name the later one stays.
RowDict(columns, row) ==
    [c \in {columns[i] : i \in 1..Len(columns)} |->
       row[CHOOSE i \in 1..Len(columns) :
             columns[i] = c /\ \A k \in (i + 1)..Len(columns) : columns[k] # c]]

\* A filter that compares the query as written, without upper-casing it.
IsDangerousCaseSensitive(text) ==
    \E kw \in DangerousKeywords : Contains(text, kw)

\* any(keyword in query.upper() for keyword in dangerous_keywords)
IsDangerous(text) ==
    \E upper \in {Upper(text)} :
       \E kw \in DangerousKeywords : Contains(upper, kw)

\* except Exception as e: return {"error": f"Query execution failed: {str(e)}"}
QueryFailed(msg) == [error |-> "Query execution failed: " \o msg]

\* A result whose row_count is the number of columns.
QuerySucceededCountsColumns(columns, rows) ==
    [success |-> TRUE,
     data |-> [i \in 1..Len(rows) |-> RowDict(columns, rows[i])],
     columns |-> columns,
     row_count |-> Len(columns)]

\* The result dict of a query that ran: the rows as dicts, the columns, the
\* number of rows.
QuerySucceeded(columns, rows) ==
    [success |-> TRUE,
     data |-> [i \in 1..Len(rows) |-> RowDict(columns, rows[i])],
     columns |-> columns,
     row_count |-> Len(rows)]

\* An execute_query that connects again whenever the connection is not open.
NeedsConnectUnlessOpen(conn) == conn # "open"

\* `if not self.connection`: None is falsy; a Connection object, open or
\* closed, is truthy.
NeedsConnect(conn) == conn = "none"

\* RNAseqDatabase.execute_query(query) with self.connection = conn and the
\* table as `table`; canConnect says whether sqlite3.connect would succeed.
\* Gives self.connection and the table afterwards, the statement given to
\* cursor.execute, and the returned dict.
ExecuteQuery(q, conn, table, canConnect) ==
    LET conn1 == IF NeedsConnect(conn) /\ canConnect THEN "open" ELSE conn
        run == Sqlite(q.effect, table)
    IN  IF NeedsConnect(conn) /\ ~canConnect
        THEN [connection |-> conn, db |-> table, passed |-> NoText,
              ret |-> [error |-> "Database connection failed"]]
        ELSE IF IsDangerous(q.text)
        THEN [connection |-> conn1, db |-> table, passed |-> NoText,
              ret |-> [error |-> "Only SELECT queries are allowed"]]
        ELSE IF conn1 = "closed"
        THEN [connection |-> conn1, db |-> table, passed |-> NoText,
              ret |-> QueryFailed("Cannot operate on a closed database.")]
        ELSE IF run.error # ""
        THEN [connection |-> conn1, db |-> table, passed |-> q.text,
              ret |-> QueryFailed(run.error)]
        ELSE IF ~run.described
        THEN [connection |-> conn1, db |-> run.table, passed |-> q.text,
              ret |-> QueryFailed("'NoneType' object is not iterable")]
        ELSE [connection |-> conn1, db |-> run.table, passed |-> q.text,
              ret |-> QuerySucceeded(run.columns, run.rows)]

\* max_rows in sql_query_tool
MaxRowsShown == 20

\* What sql_query_tool returns to the model for the result dict r.
SqlToolOutput(r) ==
    IF "error" \in DOMAIN r
    THEN [kind |-> "error", text |-> "Error: " \o r.error]
    ELSE IF r.row_count = 0
    THEN [kind |-> "text",
          text |-> "Query executed successfully but returned no results."]
    ELSE [kind |-> "rows",
          row_count |-> r.row_count,
          all_shown |-> ~(r.row_count > MaxRowsShown),
          shown |-> SubSeq(r.data, 1, Min(MaxRowsShown, Len(r.data)))]

\* RNAseqDatabase.__init__ and the objects built around it: nothing connected,
\* nothing cached.
InitDb ==
    /\ DbIdle
    /\ RetryIdle
    /\ SeqIdle
    /\ ConcIdle
    /\ ChatIdle

\* RNAseqDatabase.connect(): sqlite3.connect succeeds or raises.  A new
\* connection sees the database file, to which nothing is ever committed.
Connect(canConnect) ==
    /\ IF canConnect
       THEN connection' = "open" /\ db' = InitialTable
       ELSE UNCHANGED <<connection, db>>
    /\ UNCHANGED <<lastQuery, connBefore, dbBefore, dbAfter, connAfter,
                   cacheBefore, lastRows, passed, ret, lastQueryData,
                   lastTool, toolOut, llmAsked>>
    /\ UNCHANGED <<vars, seqVars, concVars, chatVars>>

\* RNAseqDatabase.close(): closes the connection object and keeps it; what was
\* not committed is rolled back.
Close ==
    /\ connection # "none"
    /\ connection' = "closed"
    /\ db' = InitialTable
    /\ UNCHANGED <<lastQuery, connBefore, dbBefore, dbAfter, connAfter,
                   cacheBefore, lastRows, passed, ret, lastQueryData,
                   lastTool, toolOut, llmAsked>>
    /\ UNCHANGED <<vars, seqVars, concVars, chatVars>>

\* A tool that stores whatever a successful query returned, also no rows.
StoreIfAlways(r) == "error" \notin DOMAIN r

\* sql_query_tool stores the result when it is no error and
\* result["row_count"] > 0.
StoreIf(r) == "error" \notin DOMAIN r /\ r.row_count > 0

\* The SQL_Query tool, sql_query_tool(query): execute_query, then
\* plotter.store_query_data when rows came back, then the text for the model.
SqlQueryTool(q, canConnect) ==
    \E r \in {ExecuteQuery(q, connection, db, canConnect)} :
        /\ lastQuery' = q.text
        /\ connBefore' = connection
        /\ dbBefore' = db
        /\ dbAfter' = r.db
        /\ connAfter' = r.connection
        /\ cacheBefore' = lastQueryData
        /\ lastRows' = IF "error" \notin DOMAIN r.ret /\ r.ret.row_count > 0
                       THEN r.ret.data
                       ELSE lastRows
        /\ connection' = r.connection
        /\ db' = r.db
        /\ passed' = r.passed
        /\ ret' = r.ret
        /\ lastQueryData' = IF StoreIf(r.ret)
                            THEN [data |-> r.ret.data, query_info |-> q.text]
                            ELSE lastQueryData
        /\ lastTool' = "SQL_Query"
        /\ toolOut' = SqlToolOutput(r.ret)
        /\ llmAsked' = FALSE
        /\ UNCHANGED <<vars, seqVars, concVars, chatVars>>

\* The Create_Plot tool, plot_tool(plot_request), with RNAseqPlotter.create_plot:
\* without cached data it returns an error; with it, the model is asked for
\* plotting code, which runs on the cached rows and works or raises.
PlotTool(codeWorks) ==
    /\ lastTool' = "Create_Plot"
    /\ IF lastQueryData = NoneValue
       THEN /\ toolOut' = [kind |-> "error",
                           text |-> "Error: No data available for plotting. Please run a SQL query first."]
            /\ llmAsked' = FALSE
       ELSE IF lastQueryData.data = <<>>
       THEN /\ toolOut' = [kind |-> "error",
                           text |-> "Plot creation failed: No data available for plotting"]
            /\ llmAsked' = FALSE
       ELSE /\ llmAsked' = TRUE
            /\ toolOut' = IF codeWorks
                          THEN [kind |-> "plot", df |-> lastQueryData.data]
                          ELSE [kind |-> "error",
                                text |-> "Plot creation failed: Plot generation failed"]
    /\ UNCHANGED <<connection, db, lastQuery, connBefore, dbBefore, dbAfter,
                   connAfter, cacheBefore, lastRows, passed, ret,
                   lastQueryData>>
    /\ UNCHANGED <<vars, seqVars, concVars, chatVars>>

NextDb ==
    \/ \E c \in BOOLEAN : Connect(c)
    \/ Close
    \/ \E q \in Queries : \E c \in BOOLEAN : SqlQueryTool(q, c)
    \/ \E w \in BOOLEAN : PlotTool(w)

\* The database, the two tools and the plotter, called in any order.
DbSpec == InitDb /\ [][NextDb]_dbVars

----------------------------------------------------------------------------
\* The chat page (src/src/app.py) in front of the one agent of the server
\* process (agent = create_agent()), whose memory is a ConversationBufferMemory

\* Number of questions that are sent in one run of the model.
MaxQuestions == 2

\* What the user types into 'user-input'; the empty text is not sent.
UserInputs == {"", "top genes?", "plot them"}

\* The start of system_context in RNAseqAgent.ask.
SystemContext == "You are an expert RNAseq data analyst."

\* contextualized_question
Contextualized(question) ==
    SystemContext \o "\n\nUser question: " \o question

\* How a run of the agent executor ends: with an output that is saved to the
\* memory, or with an exception from the model, a tool or the saving itself.
AgentRuns == {[output |-> "Here are the genes."], [raises |-> "boom"]}

\* What RNAseqAgent.ask returns for a run: (answer, plot_filename), or the
\* error text.
AskResult(run) ==
    IF "raises" \in DOMAIN run
    THEN [type |-> "str",
          text |-> "I encountered an error while processing your question: "
                      \o run.raises]
    ELSE [type |-> "tuple", answer |-> run.output, plot_filename |-> NoneValue]

\* The answer process_bot_response shows for what ask returned.
AnswerOf(res) == IF res.type = "tuple" THEN res.answer ELSE res.text

InitChat ==
    /\ ChatIdle
    /\ RetryIdle
    /\ SeqIdle
    /\ ConcIdle
    /\ DbIdle

\* show_user_message: the user's text is appended to chat-history, unless it is
\* empty.
ShowUserMessage(user_input) ==
    /\ Len(chatHistory) < 2 * MaxQuestions
    /\ asked < MaxQuestions
    /\ chatHistory' = IF user_input = ""
                      THEN chatHistory
                      ELSE Append(chatHistory,
                                  [role |-> "user", content |-> user_input])
    /\ UNCHANGED <<memory, askContext, lastReset, asked>>
    /\ UNCHANGED <<vars, seqVars, concVars, dbVars>>

\* process_bot_response: agent.ask on the last user message.  The executor
\* loads the messages of the memory into the prompt, runs, and on success saves
\* the question and the answer to the memory; the answer or the error text is
\* appended to chat-history.
ProcessBotResponse(run) ==
    /\ chatHistory # <<>>
    /\ chatHistory[Len(chatHistory)].role = "user"
    /\ askContext' = memory
    /\ asked' = asked + 1
    /\ memory' = IF "raises" \in DOMAIN run
                 THEN memory
                 ELSE memory \o
                      <<[type |-> "human",
                         content |-> Contextualized(
                                        chatHistory[Len(chatHistory)].content)],
                        [type |-> "ai", content |-> run.output]>>
    /\ chatHistory' = Append(chatHistory,
                             [role |-> "bot",
                              content |-> AnswerOf(AskResult(run)),
                              html_plot |-> NoneValue])
    /\ UNCHANGED lastReset
    /\ UNCHANGED <<vars, seqVars, concVars, dbVars>>

\* The page is loaded again: dcc.Store 'chat-history' is back to data=[].  The
\* agent is a module-level object of the server process; loading the page
\* runs no callback and touches nothing of it.
Refresh ==
    /\ chatHistory' = <<>>
    /\ lastReset' = "refresh"
    /\ UNCHANGED <<memory, askContext, asked>>
    /\ UNCHANGED <<vars, seqVars, concVars, dbVars>>

\* clear_chat: the chat window and chat-history become empty.
ClearChat ==
    /\ chatHistory' = <<>>
    /\ lastReset' = "clear"
    /\ UNCHANGED <<memory, askContext, asked>>
    /\ UNCHANGED <<vars, seqVars, concVars, dbVars>>

NextChat ==
    \/ \E u \in UserInputs : ShowUserMessage(u)
    \/ \E run \in AgentRuns : ProcessBotResponse(run)
    \/ Refresh
    \/ ClearChat

\* The chat page and the agent's memory.
ChatSpec == InitChat /\ [][NextChat]_chatVars

----------------------------------------------------------------------------
\* Properties of one execution

\* The execution has returned or raised.
Done == pc = "done"

\* The entry of the latest agent.invoke call.
LastCall == history[Len(history)]

\* Every agent.invoke call so far raised a retryable error.
AllRetryable == \A i \in 1..Len(history) : history[i].kind = "retryable"

\* Every agent.invoke call before the latest one raised a retryable error.
EarlierRetryable == \A i \in 1..(Len(history) - 1) : history[i].kind = "retryable"

\* C1: with max_retries = n >= 1 and a callable whose every invocation raises
\* a retryable error, an execution whose waits all complete ends only after
\* exactly n invocations, and it ends by returning the Fallback Result, not
\* by raising.
C1_ExhaustionReturnsFallback ==
    (Done /\ max_retries >= 1 /\ AllRetryable /\ ~waitCancelled)
        => /\ calls = max_retries
           /\ Len(history) = max_retries
           /\ outcome = "returned"
           /\ result = FallbackResult
           /\ raised = NoExc

C1_Witness ==
    /\ Done
    /\ max_retries = MaxRetriesBound
    /\ AllRetryable
    /\ calls = MaxRetriesBound
    /\ result = FallbackResult

\* C2: with max_retries >= 1, a callable that raises a fatal error on the
\* first attempt is invoked exactly once, and the caller sees that same
\* exception, with its type and its message.
C2_FatalFirstAttemptPropagates ==
    (max_retries >= 1 /\ Len(history) >= 1 /\ history[1].kind = "fatal")
        => /\ Done
           /\ calls = 1
           /\ Len(history) = 1
           /\ outcome = "raised"
           /\ raised = lastExc
           /\ raised.type = lastExc.type
           /\ raised.msg = lastExc.msg

C2_Witness ==
    /\ Done
    /\ history = <<[kind |-> "fatal", ret |-> NoneValue]>>
    /\ raised.type = "ValueError"
    /\ calls = 1

\* C3: when the callable fails with retryable errors on attempts 1..k-1 and
\* returns on attempt k <= max_retries, the execution is over after exactly k
\* invocations and returns what the callable returned, unmodified, which is
\* not the Fallback Result.
C3_SuccessReturnsRealResult ==
    (Len(history) >= 1 /\ LastCall.kind = "ok" /\ EarlierRetryable)
        => /\ Done
           /\ calls = Len(history)
           /\ calls <= max_retries
           /\ sleeps = calls - 1
           /\ outcome = "returned"
           /\ result = LastCall.ret
           /\ result \in AgentResults
           /\ result # FallbackResult

C3_Witness ==
    /\ Done
    /\ Len(history) = 3
    /\ LastCall.kind = "ok"
    /\ EarlierRetryable
    /\ result = LastCall.ret
    /\ result.intermediate_steps # <<>>

\* C4: a non-retryable failure, at whatever attempt it occurs (after earlier
\* retryable failures, on the last allowed attempt), ends the execution: no
\* wait and no further invocation follows it, and the caller sees that
\* exception and not the Fallback Result.
C4_FatalNeverRetriedNeverMasked ==
    (Len(history) >= 1 /\ LastCall.kind \in {"fatal", "interrupt"})
        => /\ Done
           /\ pc # "sleep"
           /\ calls = Len(history)
           /\ sleeps = calls - 1
           /\ outcome = "raised"
           /\ raised = lastExc
           /\ result # FallbackResult

C4_Witness ==
    /\ Done
    /\ max_retries = 3
    /\ Len(history) = 3
    /\ LastCall.kind = "fatal"
    /\ EarlierRetryable
    /\ outcome = "raised"
    /\ raised.type = "RuntimeError"

\* C5: in every reachable state of an execution with a non-negative
\* max_retries, the number of invocations of the callable made so far is at
\* most max_retries.
C5_CallsAtMostMaxRetries ==
    max_retries >= 0 => calls <= max_retries

C5_Witness ==
    /\ max_retries = MaxRetriesBound
    /\ calls = MaxRetriesBound
    /\ pc = "done"

\* C6 as claimed: whenever the execution sleeps after the attempt with 0-based
\* index i, 2^i <= delay <= min(2^i + 1, 30) (seconds; ticks in the model).
C6_DelayBoundsAsClaimed ==
    pc = "sleep"
        => /\ Pow2(attempt) * JitterSteps <= delay
           /\ delay <= Min(Pow2(attempt) * JitterSteps + JitterSteps,
                           MaxDelay * JitterSteps)

\* C6 amended: whenever the execution sleeps after the attempt with 0-based
\* index i, min(2^i, 30) <= delay <= min(2^i + 1, 30): the cap of 30 seconds
\* applies to the lower bound as well.
C6_DelayBoundsCapped ==
    pc = "sleep"
        => /\ Min(Pow2(attempt), MaxDelay) * JitterSteps <= delay
           /\ delay <= Min(Pow2(attempt) * JitterSteps + JitterSteps,
                           MaxDelay * JitterSteps)

C6_Witness ==
    /\ pc = "sleep"
    /\ attempt = 5
    /\ delay = MaxDelay * JitterSteps
    /\ sleeps = 6

\* C7: in every completed execution (one that returned, or raised what the
\* callable raised) that invoked the callable at least once, the number of
\* sleeps is the number of invocations minus one: no sleep follows the last
\* invocation.
C7_SleepsAreCallsMinusOne ==
    (Done /\ ~waitCancelled /\ calls >= 1) => sleeps = calls - 1

C7_Witness ==
    /\ Done
    /\ ~waitCancelled
    /\ result = FallbackResult
    /\ calls = 3
    /\ sleeps = 2

\* C8: for every positive max_retries, an execution that has ended has ended
\* in exactly one of three ways: it returned what the callable returned, it
\* returned the Fallback Result, or it raised; it never both returns and
\* raises, and it never ends with no result.
C8_ExactlyOneOutcome ==
    (Done /\ max_retries >= 1)
        => \/ /\ outcome = "returned"
              /\ result \in AgentResults
              /\ result # FallbackResult
              /\ raised = NoExc
           \/ /\ outcome = "returned"
              /\ result = FallbackResult
              /\ result \notin AgentResults
              /\ raised = NoExc
           \/ /\ outcome = "raised"
              /\ raised # NoExc
              /\ result = NoneValue

C8_Witness ==
    /\ Done
    /\ max_retries = 2
    /\ calls = 2
    /\ outcome = "raised"
    /\ raised # NoExc
    /\ raised # KeyboardInterrupt

\* C9: a call that invoked the callable, did not return the callable's result
\* and still returned, returned the Fallback Result: a response of the shape
\* of a normal one, whose output is the at-capacity message and whose
\* intermediate_steps is the empty list; and that happens only when the last
\* allowed attempt failed with a retryable error.
C9_FallbackShapeAndOccasion ==
    (Done /\ outcome = "returned" /\ calls >= 1 /\ LastCall.kind # "ok")
        => /\ DOMAIN result = {"output", "intermediate_steps"}
           /\ \A r \in AgentResults : DOMAIN r = DOMAIN result
           /\ result.output =
                "MistralAI is currently at capacity. Please try again in a few moments."
           /\ result.intermediate_steps = <<>>
           /\ LastCall.kind = "retryable"
           /\ calls = max_retries
           /\ attempt = max_retries - 1

C9_Witness ==
    /\ Done
    /\ outcome = "returned"
    /\ max_retries = 1
    /\ calls = 1
    /\ LastCall.kind = "retryable"
    /\ result.intermediate_steps = <<>>

\* C10: once a wait between retries has been cancelled, the execution is over:
\* no invocation of the callable follows the cancelled wait, the caller sees
\* the cancellation signal, and the Fallback Result is not returned.
C10_CancelledWaitPropagates ==
    waitCancelled
        => /\ Done
           /\ outcome = "raised"
           /\ raised = KeyboardInterrupt
           /\ result # FallbackResult
           /\ calls = sleeps
           /\ LastCall.kind = "retryable"

C10_Witness ==
    /\ waitCancelled
    /\ Done
    /\ calls = 2
    /\ sleeps = 2
    /\ raised = KeyboardInterrupt

\* Twice the number of values of range(max_retries) not yet taken, plus what
\* is left of the current iteration; 0 once the execution has ended.
Variant ==
    IF Done
    THEN 0
    ELSE 2 * ((IF max_retries > 0 THEN max_retries ELSE 0) - attempt)
         + (IF pc = "for" THEN 2 ELSE 1)

\* C16: for every max_retries and every sequence of callable outcomes, when
\* each call of the callable returns or raises and each sleep completes, the
\* execution eventually returns or raises; every step brings it closer: a
\* non-negative measure bounded by 2 * max_retries + 2 decreases at each step.
C16_RetryTerminates ==
    /\ <>Done
    /\ [](Variant >= 0 /\ Variant <= 2 * MaxRetriesBound + 2)
    /\ [][Variant' < Variant]_vars

C16_Witness ==
    /\ Done
    /\ max_retries = MaxRetriesBound
    /\ attempt = MaxRetriesBound - 1
    /\ sleeps = MaxRetriesBound - 1
    /\ outcome = "raised"
    /\ ~waitCancelled

\* C17: every delay between retries is at most 30 seconds, for every attempt
\* index and every jitter, so an execution with max_retries >= 1 sleeps at
\* most 30 * (max_retries - 1) seconds in total.
C17_DelayAndTotalSleepCapped ==
    /\ delay <= MaxDelay * JitterSteps
    /\ max_retries >= 1 => slept <= MaxDelay * JitterSteps * (max_retries - 1)
    /\ slept <= MaxDelay * JitterSteps * sleeps

C17_Witness ==
    /\ pc = "sleep"
    /\ delay = MaxDelay * JitterSteps
    /\ Pow2(attempt) > MaxDelay
    /\ slept > MaxDelay * JitterSteps

\* C18: with max_retries = 0 or negative the callable is never invoked, no
\* sleep happens and nothing is raised, and the call returns None, which is
\* neither a result of the callable nor the Fallback Result.
C18_NoAttemptsReturnsNone ==
    max_retries <= 0
        => /\ calls = 0
           /\ history = <<>>
           /\ sleeps = 0
           /\ pc # "sleep"
           /\ outcome # "raised"
           /\ raised = NoExc
           /\ Done => /\ outcome = "returned"
                      /\ result = NoneValue
                      /\ result \notin AgentResults
                      /\ result # FallbackResult

C18_Witness ==
    /\ Done
    /\ max_retries = 0
    /\ calls = 0
    /\ outcome = "returned"
    /\ result = NoneValue

\* C12: no attempt state leaks between successive calls.  A call that follows
\* another one starts at attempt 0 with its full budget: its loop variable
\* counts its own completed sleeps, and when all its invocations fail with
\* retryable errors it makes max_retries of them before it returns the
\* fallback, whether the call before succeeded, failed or exhausted its
\* retries.  Two successive calls whose callable returns the same value at
\* once each invoke it exactly once and return the same result.
C12_NoLeakBetweenCalls ==
    callNo >= 2
        => /\ calls = Len(history)
           /\ attempt = IF pc = "sleep" THEN sleeps - 1 ELSE
                        IF pc = "for" THEN sleeps ELSE attempt
           /\ pc = "for" => attempt = calls
           /\ (Done /\ max_retries >= 1 /\ AllRetryable /\ ~waitCancelled)
                 => /\ calls = max_retries
                    /\ result = FallbackResult
           /\ (Done /\ Len(history) = 1 /\ LastCall.kind = "ok"
                    /\ prev.history = history)
                 => /\ calls = 1
                    /\ prev.calls = 1
                    /\ outcome = prev.outcome
                    /\ result = prev.result
                    /\ result = LastCall.ret

C12_Witness ==
    /\ callNo = 2
    /\ prev.outcome = "returned"
    /\ prev.result = FallbackResult
    /\ prev.calls = SeqMaxRetries
    /\ Done
    /\ max_retries = SeqMaxRetries
    /\ AllRetryable
    /\ calls = SeqMaxRetries
    /\ result = FallbackResult

\* The number of entries of h, among its first n, that are retryable failures
\* followed by a sleep: those before the last allowed attempt.
RECURSIVE SleepsDue(_, _)
SleepsDue(h, n) ==
    IF h = <<>>
    THEN 0
    ELSE SleepsDue(SubSeq(h, 1, Len(h) - 1), n)
         + (IF h[Len(h)].kind = "retryable" /\ Len(h) < n THEN 1 ELSE 0)

\* What the outcomes h of its own callable make of an execution called with
\* max_retries = n, in the state s.
OwnOutcomesDecide(s, n, h) ==
    /\ s.calls = Len(h)
    /\ s.calls <= n
    /\ \A i \in 1..(Len(h) - 1) : h[i].kind = "retryable"
    /\ s.sleeps = SleepsDue(h, n)
    /\ s.pc = "sleep" => h # <<>> /\ h[Len(h)].kind = "retryable" /\ Len(h) < n
    /\ s.pc = "for" => h = <<>> \/ (Len(h) < n /\ h[Len(h)].kind = "retryable")
    /\ s.pc = "done" =>
         IF h = <<>>
         THEN n = 0 /\ s.outcome = "returned" /\ s.result = NoneValue
         ELSE CASE h[Len(h)].kind = "ok" ->
                     s.outcome = "returned" /\ s.result = h[Len(h)].ret
                [] h[Len(h)].kind \in {"fatal", "interrupt"} ->
                     s.outcome = "raised" /\ s.raised # NoExc /\ ~s.cancelled
                [] h[Len(h)].kind = "retryable" ->
                     IF s.cancelled
                     THEN s.outcome = "raised" /\ s.raised = KeyboardInterrupt
                     ELSE /\ Len(h) = n
                          /\ s.outcome = "returned"
                          /\ s.result = FallbackResult

\* C11: executions in different sessions are independent under every
\* interleaving.  The attempt count, the sleeps and the final outcome of each
\* are what the outcomes of its own callable decide, whatever the other
\* executions do; its loop variable counts its own completed sleeps; and a
\* step of one execution changes nothing of another.
C11_ConcurrentCallsIndependent ==
    /\ [](\A p \in Sessions :
            /\ OwnOutcomesDecide(inv[p], inv[p].max_retries, inv[p].history)
            /\ inv[p].pc # "done" =>
                 loopVar[p] = inv[p].sleeps - (IF inv[p].pc = "sleep" THEN 1 ELSE 0))
    /\ [][\E p \in Sessions :
            \A q \in Sessions \ {p} : inv'[q] = inv[q] /\ loopVar'[q] = loopVar[q]]_concVars

C11_Witness ==
    /\ inv["s1"].pc = "done"
    /\ inv["s1"].max_retries = ConcMaxRetries
    /\ inv["s1"].calls = ConcMaxRetries
    /\ inv["s1"].result = FallbackResult
    /\ inv["s2"].pc = "sleep"
    /\ inv["s2"].calls = 1
    /\ loopVar["s1"] # loopVar["s2"]

----------------------------------------------------------------------------
\* Properties of the database, the tools and the plotter

\* The upper-cased text contains one of DROP, DELETE, INSERT, UPDATE, ALTER,
\* CREATE somewhere, whatever is around it.
HasDenylistedWord(text) ==
    \E kw \in DangerousKeywords :
       \E i \in 0..(Len(text) - Len(kw)) :
          \A k \in 1..Len(kw) : UpperChar(text[i + k]) = kw[k]

OnlySelectError == [error |-> "Only SELECT queries are allowed"]

\* C13: only SELECT queries are allowed.  Every statement that execute_query
\* gives to the database is a SELECT statement, and with a connection at hand
\* any other kind of statement is answered with the error 'Only SELECT
\* queries are allowed' and is not executed.
C13_OnlySelectExecuted ==
    /\ passed # NoText => StatementKind(passed) = TxtSelect
    /\ (lastQuery # NoText /\ StatementKind(lastQuery) # TxtSelect
          /\ connBefore # "none")
         => ret = OnlySelectError /\ passed = NoText

\* C14: query results are cached for plotting.  After every SQL_Query call
\* that executes successfully the plotter's cached data is the complete
\* result set of that call, and a Create_Plot call that follows plots it.
C14_CacheIsLatestResult ==
    /\ (lastTool = "SQL_Query" /\ "success" \in DOMAIN ret)
         => /\ lastQueryData # NoneValue
            /\ lastQueryData.data = ret.data
            /\ Len(lastQueryData.data) = ret.row_count
    /\ (lastTool = "Create_Plot" /\ "success" \in DOMAIN ret
          /\ toolOut.kind = "plot")
         => toolOut.df = ret.data

\* C19 as claimed: for every query whose upper-cased text contains a
\* denylisted word anywhere, execute_query returns the error 'Only SELECT
\* queries are allowed', gives no statement to the database and leaves the
\* table as it was.
C19_DenylistAsClaimed ==
    (lastQuery # NoText /\ HasDenylistedWord(lastQuery))
        => /\ ret = OnlySelectError
           /\ passed = NoText
           /\ dbAfter = dbBefore

\* C19 amended: for every such query execute_query gives no statement to the
\* database and leaves the table as it was; it returns the error 'Only SELECT
\* queries are allowed', except that on a database that was never connected
\* and cannot be connected it returns 'Database connection failed'.
C19_DenylistRejects ==
    (lastQuery # NoText /\ HasDenylistedWord(lastQuery))
        => /\ passed = NoText
           /\ dbAfter = dbBefore
           /\ ret \in {OnlySelectError, [error |-> "Database connection failed"]}
           /\ connBefore # "none" => ret = OnlySelectError

C19_Witness ==
    /\ connBefore = "closed"
    /\ HasDenylistedWord(lastQuery)
    /\ StatementKind(lastQuery) = TxtSelect
    /\ ret = OnlySelectError
    /\ passed = NoText

\* C20: execute_query never raises, whatever the query and whether the
\* database was never connected, is connected or is closed: it returns a dict
\* with the one key 'error', or a dict with success = True whose row_count is
\* the number of entries of data and whose rows have keys among columns.
C20_ExecuteQueryReturnsDict ==
    lastQuery # NoText
        => \/ /\ DOMAIN ret = {"error"}
              /\ connBefore = "closed"
                    => ret \in {OnlySelectError,
                                QueryFailed("Cannot operate on a closed database.")}
           \/ /\ connBefore # "closed"
              /\ DOMAIN ret = {"success", "data", "columns", "row_count"}
              /\ ret.success = TRUE
              /\ ret.row_count = Len(ret.data)
              /\ \A i \in 1..Len(ret.data) :
                     DOMAIN ret.data[i]
                        \subseteq {ret.columns[k] : k \in 1..Len(ret.columns)}

C20_Witness ==
    /\ connBefore = "closed"
    /\ ret = QueryFailed("Cannot operate on a closed database.")
    /\ lastQueryData # NoneValue
    /\ Len(lastQueryData.data) = 2
    /\ DOMAIN lastQueryData.data[1] = {"gene"}

\* C21: whenever execute_query returns an error result, the table as the
\* connection sees it is the same as before the call.
C21_ErrorLeavesContents ==
    (lastQuery # NoText /\ "error" \in DOMAIN ret) => dbAfter = dbBefore

\* C22: execute_query on a database that was never connected connects first
\* and then runs the query; on a database that close() has closed it does not
\* connect again, returns an error result and runs no query.
C22_ClosedStaysClosed ==
    lastQuery # NoText
        => /\ connBefore = "closed"
                => /\ connAfter = "closed"
                   /\ "error" \in DOMAIN ret
                   /\ passed = NoText
                   /\ dbAfter = dbBefore
           /\ (connBefore = "none"
                 /\ ret # [error |-> "Database connection failed"])
                => /\ connAfter = "open"
                   /\ ~HasDenylistedWord(lastQuery) => passed = lastQuery

C22_Witness ==
    /\ connBefore = "closed"
    /\ connAfter = "closed"
    /\ StatementKind(lastQuery) = TxtSelect
    /\ ~HasDenylistedWord(lastQuery)
    /\ ret = QueryFailed("Cannot operate on a closed database.")
    /\ lastRows # NoneValue

\* C23: Create_Plot requires prior data.  When no earlier SQL_Query call has
\* returned a row, Create_Plot returns the 'No data available for plotting'
\* error and the model is not asked for plotting code, so none is executed.
C23_PlotNeedsRows ==
    (lastTool = "Create_Plot" /\ lastRows = NoneValue)
        => /\ toolOut = [kind |-> "error",
                         text |-> "Error: No data available for plotting. Please run a SQL query first."]
           /\ llmAsked = FALSE

C23_Witness ==
    /\ lastTool = "Create_Plot"
    /\ lastRows = NoneValue
    /\ lastQuery # NoText
    /\ "success" \in DOMAIN ret
    /\ toolOut.kind = "error"
    /\ llmAsked = FALSE

\* The latest SQL_Query call returned an error or no rows.
LatestCallGaveNoRows ==
    /\ lastQuery # NoText
    /\ "error" \in DOMAIN ret \/ ret.row_count = 0

----------------------------------------------------------------------------
\* Properties of the chat page

\* C15: conversations are not saved and reset on refresh.  After a page
\* refresh the agent's memory holds no message from before it: it is empty
\* while chat-history is empty, and the first question after the refresh is
\* answered with no earlier message in the prompt.
C15_RefreshResetsConversation ==
    lastReset = "refresh"
        => /\ chatHistory = <<>> => memory = <<>>
           /\ (/\ Len(chatHistory) = 2
               /\ chatHistory[1].role = "user"
               /\ chatHistory[2].role = "bot") => askContext = <<>>

====
